---------------------------- MODULE Spec2Model ----------------------------
(***************************************************************************)
(* State-machine model of the court-case scraper: scrapeCase and the      *)
(* command-line entry point, in both script variants of the repository     *)
(* (src/scrape-case.js, which reports to a status sink, and                *)
(* src/unnamed/part_001, which does not).                                  *)
(*                                                                         *)
(* One action per awaited step of scrapeCase.  Every browser capability    *)
(* call either completes or raises; the page contents the code reads       *)
(* (handler attributes, the documents table, the fetch responses) are      *)
(* inputs drawn from small sets at the step that reads them, and the page  *)
(* shown after the search is drawn when the search is submitted.  A write  *)
(* to the status sink is sent in one step and settles, if it does, in      *)
(* another.                                                                *)
(***************************************************************************)
EXTENDS Integers, Sequences, FiniteSets, TLC

VARIABLES
  variant,    \* "dashboard" (src/scrape-case.js) or "basic" (src/unnamed/part_001)
  pool,       \* TRUE iff the status-sink connection was configured (pool # null)
  argv,       \* the positional command-line arguments
  pc,         \* position of the run
  result,     \* the ScrapeResult under construction
  page,       \* the JS variable page: "undefined", "page" or "null"
  calls,      \* browser capability calls issued so far, in order
  sinkLog,    \* status-sink writes sent so far, in order, each settled or not
  dirs,       \* directories that exist under the download base
  files,      \* files written: path -> [row, body]
  docTable,   \* the rows of the eFiled-documents table read by the scan
  attempts,   \* download attempts so far: [idx, type, url, outcome, recorded]
  idx,        \* index in documents of the next download attempt
  downloaded, \* the counter `downloaded` of the download loop
  failures,   \* operations that raised (caught, swallowed or escaped), in order
  terminal,   \* the terminal state the pipeline reached: a short-circuit, or "done"
  caught,     \* TRUE once the outer catch block has run
  returned,   \* "none", "result" (promise fulfilled) or "rejected"
  exitCode,   \* <<status>> once the process has exited, <<>> before
  env,        \* what the browser, the page and the file system answered, in order
  searchPage, \* the page shown after the search was submitted, <<>> before
  classified, \* the Case Locator's outcome: "none" until the page is classified
  first       \* the outcome of an earlier run kept for comparison, <<>> if none

vars == <<variant, pool, argv, pc, result, page, calls, sinkLog, dirs, files,
          docTable, attempts, idx, downloaded, failures, terminal, caught,
          returned, exitCode, env, searchPage, classified, first>>

-----------------------------------------------------------------------------
(* Bounds *)

\* Longest documents table the scan is given.
MaxRows == 2

\* Longest documents table in the specifications that vary other inputs (a
\* second run, the index number).
MaxRowsShort == 1

-----------------------------------------------------------------------------
(* Values *)

Null == "null"

Variants == {"dashboard", "basic"}

\* Index numbers, as character sequences: "60/23".
IndexNumbers == { <<"6", "0", "/", "2", "3">> }
Counties == {"Suffolk"}

DOWNLOAD_DIR == <<"/tmp/trex-pdfs">>
SEARCH_URL == "FCASSearch"
CASE_URL == "FCASCaseInfo"
EFILED_URL == "FCASeFiledDocsDetail"

JudgmentName == <<"JUDGMENT", "OF", "FORECLOSURE", "AND", "SALE">>
NoticeName == <<"NOTICE", "OF", "SALE">>

ErrHCaptcha == "hCaptcha detected"
\* (the challenge string pasted into the case-not-found branch)
ErrNoCaseCopied == "hCaptcha detected"
ErrNoCase == "No case found"
ErrNoButton == "No eFiled docs button"
ErrNoTargetDocs == "No target documents found"
ShortCircuitErrors == {ErrHCaptcha, ErrNoCase, ErrNoButton, ErrNoTargetDocs}

\* err.message of the failure raised by operation op.
ErrMsg(op) == "failed: " \o op

-----------------------------------------------------------------------------
(* Pure helpers *)

\* (a replace that leaves the string as it is)
ReplaceNone(s, from, to) == s

\* String.prototype.replace(from, to) with a string pattern: first occurrence only.
RECURSIVE ReplaceFirst(_, _, _)
ReplaceFirst(s, from, to) ==
  IF s = <<>> THEN <<>>
  ELSE IF Head(s) = from THEN <<to>> \o Tail(s)
  ELSE <<Head(s)>> \o ReplaceFirst(Tail(s), from, to)

\* path.join(DOWNLOAD_DIR, indexNumber.replace('/', '-'))
CaseDirOf(indexNumber) == Append(DOWNLOAD_DIR, ReplaceFirst(indexNumber, "/", "-"))

\* const filename = doc.type === 'judgment' ? 'judgment.pdf' : 'notice.pdf'
FileNameOf(type) == IF type = "judgment" THEN "judgment.pdf" ELSE "notice.pdf"

\* path.join(caseDir, filename)
FilePathOf(caseDir, type) == Append(caseDir, FileNameOf(type))

\* The object literal assigned to `result` at the top of scrapeCase.
InitialResult(indexNumber, county) ==
  [ success |-> FALSE,
    indexNumber |-> indexNumber,
    county |-> county,
    caseDir |-> CaseDirOf(indexNumber),
    pdfs |-> [t \in {} |-> <<>>],
    error |-> Null,
    hcaptchaDetected |-> FALSE,
    hcaptchaSitekey |-> "unset",
    caseInfo |-> <<>>,
    documents |-> <<>> ]


-----------------------------------------------------------------------------
(* The status sink *)

\* The updateDashboard call sites: the position each is awaited at, the
\* position that follows it, and its status argument.
DashNext ==
  [ dash_connecting |-> "connect",
    dash_searching  |-> "gotoSearch",
    dash_hcaptcha   |-> "closeChallenge",
    dash_notfound   |-> "closeNotFound",
    dash_found      |-> "evalCaseOnclick",
    dash_efiled     |-> "evalEfiled",
    dash_nobutton   |-> "closeNoButton",
    dash_nodocs     |-> "closeNoDocs",
    dash_pdfs0      |-> "download",
    dash_progress   |-> "download",
    dash_ready      |-> "finally",
    dash_error      |-> "finally" ]

DashLabels == DOMAIN DashNext

DashStatus(at) ==
  IF at \in {"dash_hcaptcha", "dash_notfound", "dash_nobutton", "dash_nodocs", "dash_error"}
  THEN "failed" ELSE "searching"

\* The step text passed at each call site.
DashStep(at) ==
  CASE at = "dash_connecting" -> <<"Connecting to browser...">>
    [] at = "dash_searching"  -> <<"Searching for case...">>
    [] at = "dash_hcaptcha"   -> <<"hCaptcha detected - needs solving">>
    [] at = "dash_notfound"   -> <<"No case found">>
    [] at = "dash_found"      -> <<"Found case, navigating...">>
    [] at = "dash_efiled"     -> <<"Getting eFiled documents...">>
    [] at = "dash_nobutton"   -> <<"No eFiled documents found">>
    [] at = "dash_nodocs"     -> <<"No Judgment/Notice found">>
    [] at = "dash_pdfs0"      -> <<"Getting PDFs", 0, Len(result.documents)>>
    [] at = "dash_progress"   -> <<"Getting PDFs", downloaded, Len(result.documents)>>
    [] at = "dash_ready"      -> <<"PDFs downloaded, ready for scan">>
    [] at = "dash_error"      -> <<"Error: ", result.error>>

\* const agentId = `scraper-${indexNumber.replace('/', '-')}`
AgentIdOf(indexNumber) == <<"scraper-">> \o ReplaceFirst(indexNumber, "/", "-")

\* The position after a step: the updateDashboard call that follows it in
\* src/scrape-case.js, which src/unnamed/part_001 does not have.
Via(dash, next) == IF variant = "dashboard" THEN dash ELSE next

\* The run is inside `await pool.query(...)`: the last write sent to the sink
\* has not settled.
SinkPending ==
  /\ pool
  /\ pc \in DashLabels
  /\ sinkLog # <<>>
  /\ ~sinkLog[Len(sinkLog)].settled

\* async function updateDashboard(indexNumber, step, status) {
\*   if (!pool) return;  const agentId = ...;  try { await pool.query(...) } ...
\* Without a pool the call returns at once; with one it sends the UPDATE and
\* awaits it, and the caller awaits updateDashboard.
UpdateDashboard ==
  /\ pc \in DashLabels
  /\ ~SinkPending
  /\ IF pool
     THEN /\ sinkLog' = Append(sinkLog, [ agentId |-> AgentIdOf(result.indexNumber),
                                          step |-> DashStep(pc),
                                          status |-> DashStatus(pc),
                                          settled |-> FALSE ])
          /\ pc' = pc
     ELSE /\ sinkLog' = sinkLog
          /\ pc' = DashNext[pc]
  /\ UNCHANGED <<env, first, searchPage, classified, variant, pool, argv, result, page,
                 calls, dirs, files, docTable, attempts, idx, downloaded, failures,
                 terminal, caught, returned, exitCode>>

\* (updateDashboard without its try/catch: a failed write raises into the caller)
QueryFailureRaises(ok, at) ==
  IF ok
  THEN pc' = DashNext[at] /\ UNCHANGED <<result, failures, terminal, caught>>
  ELSE /\ failures' = Append(failures, "query")
       /\ result' = [result EXCEPT !.error = "failed: query"]
       /\ caught' = TRUE
       /\ pc' = "finally"
       /\ UNCHANGED terminal

\* try { await pool.query(...) } catch (e) { console.error(...) }: whether the
\* write succeeded or failed, updateDashboard returns and the run goes on at
\* the statement after the call.
AfterQuery(ok, at) ==
  /\ pc' = DashNext[at]
  /\ UNCHANGED <<result, failures, terminal, caught>>

\* The awaited pool.query settles, by succeeding or by failing.
PoolQuerySettles ==
  /\ SinkPending
  /\ sinkLog' = [sinkLog EXCEPT ![Len(sinkLog)].settled = TRUE]
  /\ \E ok \in BOOLEAN : AfterQuery(ok, pc)
  /\ UNCHANGED <<env, first, searchPage, classified, variant, pool, argv, page, calls,
                 dirs, files, docTable, attempts, idx, downloaded, returned, exitCode>>

-----------------------------------------------------------------------------
(* Exceptions *)

\* catch (err) { result.error = err.message; ... } for a failure raised by op
\* inside the try block.
Raise(op) ==
  /\ failures' = Append(failures, op)
  /\ result' = [result EXCEPT !.error = ErrMsg(op)]
  /\ caught' = TRUE
  /\ pc' = Via("dash_error", "finally")
  /\ UNCHANGED terminal

\* An awaited capability call that reads nothing the run keeps: it completes,
\* or it raises into the outer catch.
PlainCall(at, call, next) ==
  /\ pc = at
  /\ calls' = Append(calls, call)
  /\ \/ /\ pc' = next
        /\ env' = Append(env, "ok")
        /\ UNCHANGED <<result, failures, terminal, caught>>
     \/ /\ Raise(call.op)
        /\ env' = Append(env, "raise")
  /\ UNCHANGED <<first, searchPage, classified, variant, pool, argv, page, sinkLog,
                 dirs, files, docTable, attempts, idx, downloaded, returned, exitCode>>

-----------------------------------------------------------------------------
(* The command line and the first stages *)

\* if (require.main === module) { const [indexNumber, county] = process.argv.slice(2);
\*   if (!indexNumber || !county) { usage; process.exit(1) }  scrapeCase(...) }
MainStart ==
  /\ pc = "main"
  /\ IF Len(argv) < 2
     THEN /\ pc' = "exited"
          /\ exitCode' = <<1>>
     ELSE /\ pc' = "mkdir"
          /\ UNCHANGED exitCode
  /\ UNCHANGED <<env, first, searchPage, classified, variant, pool, argv, result, page,
                 calls, sinkLog, dirs, files, docTable, attempts, idx, downloaded,
                 failures, terminal, caught, returned>>

\* fs.mkdirSync(caseDir, { recursive: true }) raises on a file-system fault
\* (permissions, a file in the way, a full disk) and not because the directory
\* is already there.
MkdirRaises(existing, dir, fsFault) == fsFault

\* const caseDir = ...; fs.mkdirSync(caseDir, { recursive: true }); const result = {...}
\* These statements precede the try block: a failure of mkdirSync rejects the
\* promise scrapeCase returns.
MakeCaseDir ==
  /\ pc = "mkdir"
  /\ \E fsFault \in BOOLEAN :
       /\ env' = Append(env, IF fsFault THEN "raise"
                             ELSE IF CaseDirOf(argv[1]) \in dirs THEN "existed"
                             ELSE "created")
       /\ IF MkdirRaises(dirs, CaseDirOf(argv[1]), fsFault)
          THEN /\ failures' = Append(failures, "mkdir")
               /\ returned' = "rejected"
               /\ pc' = "rejected"
               /\ UNCHANGED <<dirs, result>>
          ELSE /\ dirs' = dirs \cup {CaseDirOf(argv[1])}
               /\ result' = InitialResult(argv[1], argv[2])
               /\ pc' = Via("dash_connecting", "connect")
               /\ UNCHANGED <<failures, returned>>
  /\ UNCHANGED <<first, searchPage, classified, variant, pool, argv, page, calls,
                 sinkLog, files, docTable, attempts, idx, downloaded, terminal, caught,
                 exitCode>>

\* browser = await puppeteer.connect({ browserURL: CDP_URL, ... })
Connect == PlainCall("connect", [op |-> "connect", arg |-> "CDP_URL"], "newPage")

\* page = await browser.newPage()
NewPage ==
  /\ pc = "newPage"
  /\ calls' = Append(calls, [op |-> "newPage", arg |-> ""])
  /\ \/ /\ page' = "page"
        /\ pc' = Via("dash_searching", "gotoSearch")
        /\ env' = Append(env, "ok")
        /\ UNCHANGED <<result, failures, terminal, caught>>
     \/ /\ Raise("newPage")
        /\ env' = Append(env, "raise")
        /\ UNCHANGED page
  /\ UNCHANGED <<first, searchPage, classified, variant, pool, argv, sinkLog, dirs,
                 files, docTable, attempts, idx, downloaded, returned, exitCode>>

\* await page.goto(SEARCH_URL, { waitUntil: 'networkidle2', timeout: 60000 })
GotoSearch == PlainCall("gotoSearch", [op |-> "goto", arg |-> SEARCH_URL], "waitSelector")

\* await page.waitForSelector('#txtIndex', { timeout: 30000 })
WaitSelector == PlainCall("waitSelector", [op |-> "waitForSelector", arg |-> "#txtIndex"], "type")

\* await page.type('#txtIndex', indexNumber, { delay: 50 })
TypeIndex == PlainCall("type", [op |-> "type", arg |-> "#txtIndex"], "evalCounty")

\* const countyValue = await page.evaluate(...); if (countyValue) await page.select(...)
\* The option lookup resolves to a value or to null; only a value is selected.
EvalCounty ==
  /\ pc = "evalCounty"
  /\ calls' = Append(calls, [op |-> "evaluate", arg |-> "county"])
  /\ \/ /\ \E countyValue \in {Null, "option"} :
             /\ pc' = IF countyValue # Null THEN "select" ELSE "submit"
             /\ env' = Append(env, countyValue)
        /\ UNCHANGED <<result, failures, terminal, caught>>
     \/ /\ Raise("evaluate")
        /\ env' = Append(env, "raise")
  /\ UNCHANGED <<first, searchPage, classified, variant, pool, argv, page, sinkLog,
                 dirs, files, docTable, attempts, idx, downloaded, returned, exitCode>>

\* await page.select('select[name="cboCourt"]', countyValue)
SelectCounty == PlainCall("select", [op |-> "select", arg |-> "cboCourt"], "submit")

\* The pages the site may show once the search has been submitted.  challenge:
\* "sitekey" is an element carrying the data-sitekey attribute, "widget" a
\* challenge widget or frame without that attribute, "none" neither; anchor:
\* whether a link whose handler names openCaseDetailsWindow is on the page.
SearchPages == [challenge : {"none", "widget", "sitekey"}, anchor : BOOLEAN]

\* await Promise.all([page.click('#btnFindCase'),
\*                    page.waitForNavigation({...}).catch(() => {})])
\* Both calls are issued; a failed navigation wait is swallowed, a failed click raises.
SubmitSearch ==
  /\ pc = "submit"
  /\ calls' = calls \o << [op |-> "click", arg |-> "#btnFindCase"],
                          [op |-> "waitForNavigation", arg |-> ""] >>
  /\ \/ /\ pc' = "queryCaptcha"
        /\ \E navTimedOut \in BOOLEAN :
             /\ failures' = IF navTimedOut THEN Append(failures, "waitForNavigation")
                            ELSE failures
             /\ env' = Append(env, IF navTimedOut THEN "navTimeout" ELSE "ok")
        /\ \E shown \in SearchPages : searchPage' = <<shown>>
        /\ UNCHANGED <<result, terminal, caught>>
     \/ /\ Raise("click")
        /\ env' = Append(env, "raise")
        /\ UNCHANGED searchPage
  /\ UNCHANGED <<first, classified, variant, pool, argv, page, sinkLog, dirs, files,
                 docTable, attempts, idx, downloaded, returned, exitCode>>

-----------------------------------------------------------------------------
(* Case Locator: classification of the search result *)

\* (the challenge branch without its return: the run goes on to the case lookup)
AfterChallengeNoReturn == "queryCaseLink"

\* The position after the challenge branch has filled the result: the status
\* write (src/scrape-case.js only), then `await page.close(); return result;`.
AfterChallenge == Via("dash_hcaptcha", "closeChallenge")

\* (a challenge recognised by its site-key attribute only)
MatchesSitekeyOnly(shown) == shown.challenge = "sitekey"

\* page.$('[data-sitekey], .h-captcha, iframe[src*="hcaptcha"]') finds an
\* element: any of the three markers will do.
MatchesChallenge(shown) == shown.challenge # "none"

\* const hcaptcha = await page.$('[data-sitekey], .h-captcha, iframe[src*="hcaptcha"]');
\* if (hcaptcha) { result.hcaptchaDetected = true; result.hcaptchaSitekey = await
\*   page.$eval('[data-sitekey]', ...).catch(() => null); result.error = 'hCaptcha detected'; ...
\* The site-key lookup rejects when no element carries the attribute and
\* swallows its own failure.
QueryCaptcha ==
  /\ pc = "queryCaptcha"
  /\ \/ LET hcaptcha == MatchesChallenge(searchPage[1])
             sitekey == IF searchPage[1].challenge = "sitekey" THEN "sitekey" ELSE Null
         IN /\ env' = Append(env, "ok")
            /\ IF hcaptcha
               THEN /\ calls' = calls \o << [op |-> "$", arg |-> "hcaptcha"],
                                            [op |-> "$eval", arg |-> "data-sitekey"] >>
                    /\ result' = [result EXCEPT !.hcaptchaDetected = TRUE,
                                                !.hcaptchaSitekey = sitekey,
                                                !.error = ErrHCaptcha]
                    /\ failures' = IF sitekey = Null THEN Append(failures, "$eval")
                                   ELSE failures
                    /\ terminal' = "challenge"
                    /\ classified' = "challenge"
                    /\ UNCHANGED caught
                    /\ pc' = AfterChallenge
               ELSE /\ calls' = Append(calls, [op |-> "$", arg |-> "hcaptcha"])
                    /\ pc' = "queryCaseLink"
                    /\ UNCHANGED <<result, failures, terminal, caught, classified>>
     \/ /\ calls' = Append(calls, [op |-> "$", arg |-> "hcaptcha"])
        /\ Raise("$")
        /\ env' = Append(env, "raise")
        /\ UNCHANGED classified
  /\ UNCHANGED <<first, searchPage, variant, pool, argv, page, sinkLog, dirs, files,
                 docTable, attempts, idx, downloaded, returned, exitCode>>

\* const caseLink = await page.$('a[onclick*="openCaseDetailsWindow"]');
\* if (!caseLink) { result.error = 'No case found'; ... }
QueryCaseLink ==
  /\ pc = "queryCaseLink"
  /\ calls' = Append(calls, [op |-> "$", arg |-> "openCaseDetailsWindow"])
  /\ \/ LET caseLink == searchPage[1].anchor
         IN /\ env' = Append(env, "ok")
            /\ IF caseLink
               THEN /\ classified' = "case_found"
                    /\ pc' = Via("dash_found", "evalCaseOnclick")
                    /\ UNCHANGED <<result, failures, terminal, caught>>
               ELSE /\ result' = [result EXCEPT !.error = ErrNoCase]
                    /\ terminal' = "not_found"
                    /\ classified' = "not_found"
                    /\ pc' = Via("dash_notfound", "closeNotFound")
                    /\ UNCHANGED <<failures, caught>>
     \/ /\ Raise("$")
        /\ env' = Append(env, "raise")
        /\ UNCHANGED classified
  /\ UNCHANGED <<first, searchPage, variant, pool, argv, page, sinkLog, dirs, files,
                 docTable, attempts, idx, downloaded, returned, exitCode>>

\* await page.close(); return result;  inside the try block: the finally block
\* still runs, with `page` unchanged.  A failing close raises into the catch.
EarlyReturn(at) ==
  /\ pc = at
  /\ calls' = Append(calls, [op |-> "close", arg |-> ""])
  /\ \/ /\ pc' = "finally"
        /\ env' = Append(env, "ok")
        /\ UNCHANGED <<result, failures, terminal, caught>>
     \/ /\ Raise("close")
        /\ env' = Append(env, "raise")
  /\ UNCHANGED <<first, searchPage, classified, variant, pool, argv, page, sinkLog,
                 dirs, files, docTable, attempts, idx, downloaded, returned, exitCode>>

CloseChallenge == EarlyReturn("closeChallenge")
CloseNotFound  == EarlyReturn("closeNotFound")
CloseNoButton  == EarlyReturn("closeNoButton")
CloseNoDocs    == EarlyReturn("closeNoDocs")

-----------------------------------------------------------------------------
(* Case Info Extractor *)

\* Handler attributes read off the page: one the argument-list pattern matches,
\* one it does not (no argument between the parentheses).
Handlers == {"fn(a,b,c)", "fn()"}

\* onclick.match(/fn\(([^)]+)\)/)[1]: a handler without a non-empty argument
\* list yields match() = null, and indexing null raises a TypeError.
ParsesArgs(handler) == handler = "fn(a,b,c)"

\* const onclick = await page.$eval('a[onclick*="openCaseDetailsWindow"]', ...);
\* const params = onclick.match(...)[1].split(',')...;  const caseUrl = ...
EvalCaseOnclick ==
  /\ pc = "evalCaseOnclick"
  /\ calls' = Append(calls, [op |-> "$eval", arg |-> "openCaseDetailsWindow"])
  /\ \/ \E onclick \in Handlers :
          /\ env' = Append(env, onclick)
          /\ IF ParsesArgs(onclick)
             THEN /\ pc' = "gotoCase"
                  /\ UNCHANGED <<result, failures, terminal, caught>>
             ELSE Raise("match")
     \/ /\ Raise("$eval")
        /\ env' = Append(env, "raise")
  /\ UNCHANGED <<first, searchPage, classified, variant, pool, argv, page, sinkLog,
                 dirs, files, docTable, attempts, idx, downloaded, returned, exitCode>>

\* await page.goto(caseUrl, { waitUntil: 'networkidle2', timeout: 60000 })
GotoCase == PlainCall("gotoCase", [op |-> "goto", arg |-> CASE_URL], "evalCaseText")

\* Rendered case pages, as lines of [label, value]: one that names the
\* plaintiffs and no defendant.
CaseTexts ==
  { << [label |-> "Index", value |-> "60/23"],
       [label |-> "Plaintiffs", value |-> "BANK X"] >> }

\* (caseText.match(/<label>[s]?[:\s]+([^\n]+)/i) || [])[1]?.trim()
\* The first line carrying the label (singular or plural), or undefined.
RECURSIVE FieldOf(_, _)
FieldOf(text, labels) ==
  IF text = <<>> THEN "undefined"
  ELSE IF Head(text).label \in labels THEN Head(text).value
  ELSE FieldOf(Tail(text), labels)

\* const caseText = await page.evaluate(() => document.body.innerText);
\* result.caseInfo = { plaintiff: ..., defendant: ... }
EvalCaseText ==
  /\ pc = "evalCaseText"
  /\ calls' = Append(calls, [op |-> "evaluate", arg |-> "innerText"])
  /\ \/ /\ \E caseText \in CaseTexts :
             result' = [result EXCEPT !.caseInfo =
                          << [ plaintiff |-> FieldOf(caseText, {"Plaintiff", "Plaintiffs"}),
                               defendant |-> FieldOf(caseText, {"Defendant", "Defendants"}) ] >>]
        /\ pc' = Via("dash_efiled", "evalEfiled")
        /\ env' = Append(env, "ok")
        /\ UNCHANGED <<failures, terminal, caught>>
     \/ /\ Raise("evaluate")
        /\ env' = Append(env, "raise")
  /\ UNCHANGED <<first, searchPage, classified, variant, pool, argv, page, sinkLog,
                 dirs, files, docTable, attempts, idx, downloaded, returned, exitCode>>

-----------------------------------------------------------------------------
(* Document Lister *)

Quotes == {"'", "\""}

RECURSIVE TrimLeft(_)
TrimLeft(s) == IF s # <<>> /\ Head(s) = " " THEN TrimLeft(Tail(s)) ELSE s

RECURSIVE TrimRight(_)
TrimRight(s) ==
  IF s # <<>> /\ s[Len(s)] = " " THEN TrimRight(SubSeq(s, 1, Len(s) - 1)) ELSE s

\* String.prototype.trim(), on a text given as words and " " tokens.
Trim(s) == TrimRight(TrimLeft(s))

\* String.prototype.includes(word)
Includes(s, word) == \E k \in 1..Len(s) : s[k] = word

\* The longest run of non-quote tokens of s starting at position p: [^'"]+
RECURSIVE Unquoted(_, _)
Unquoted(s, p) ==
  IF p > Len(s) \/ s[p] \in Quotes THEN <<>>
  ELSE <<s[p]>> \o Unquoted(s, p + 1)

\* Whether /openPDF\(['"]([^'"]+)['"]/ matches the handler at token p.
OpenPdfAt(onclick, p) ==
  /\ p + 3 <= Len(onclick)
  /\ onclick[p] = "openPDF("
  /\ onclick[p + 1] \in Quotes
  /\ Unquoted(onclick, p + 2) # <<>>
  /\ p + 2 + Len(Unquoted(onclick, p + 2)) <= Len(onclick)

\* onclick.match(/openPDF\(['"]([^'"]+)['"]/): <<urlMatch[1]>> for the leftmost
\* match, <<>> for null.
OpenPdfMatch(onclick) ==
  LET hits == {p \in 1..Len(onclick) : OpenPdfAt(onclick, p)}
  IN IF hits = {} THEN <<>>
     ELSE LET p == CHOOSE q \in hits : \A r \in hits : q <= r
          IN << Unquoted(onclick, p + 2) >>

\* (the names matched by substring instead of equality)
IsTargetNameBySubstring(docName) ==
  Includes(docName, "JUDGMENT") \/ Includes(docName, "NOTICE")

\* docName === 'JUDGMENT OF FORECLOSURE AND SALE' || docName === 'NOTICE OF SALE'
IsTargetName(docName) == docName \in {JudgmentName, NoticeName}

\* The body of the forEach callback of the scan: the records one row yields.
\* A row is [cells, link, date]: its number of td cells, <<>> or the first
\* anchor inside cells[2] as <<[text, onclick]>>, and the text of cells[1].
ScanRow(row) ==
  IF row.cells >= 3
  THEN LET docName == IF row.link = <<>> THEN <<>> ELSE Trim(row.link[1].text)
           onclick == IF row.link = <<>> THEN <<>> ELSE row.link[1].onclick
       IN IF IsTargetName(docName) /\ onclick # <<>>
          THEN LET urlMatch == OpenPdfMatch(onclick)
               IN IF urlMatch # <<>>
                  THEN << [ name |-> docName,
                            type |-> IF Includes(docName, "JUDGMENT")
                                     THEN "judgment" ELSE "notice",
                            url |-> urlMatch[1],
                            date |-> row.date ] >>
                  ELSE <<>>
          ELSE <<>>
  ELSE <<>>

\* document.querySelectorAll('table tr').forEach(...): rows in table order.
RECURSIVE ScanDocs(_)
ScanDocs(rows) ==
  IF rows = <<>> THEN <<>> ELSE ScanRow(Head(rows)) \o ScanDocs(Tail(rows))

\* Rows the documents table is built from.
RowKinds ==
  { \* the two target rows
    [ cells |-> 3, date |-> "d1",
      link |-> << [ text |-> JudgmentName,
                    onclick |-> <<"openPDF(", "'", "u1", "'", ")">> ] >> ],
    [ cells |-> 4, date |-> "d2",
      link |-> << [ text |-> <<" ">> \o NoticeName \o <<" ">>,
                    onclick |-> <<"return ", "openPDF(", "\"", "u2", "\"", ")">> ] >> ],
    \* a target name in a row of two cells
    [ cells |-> 2, date |-> "d3",
      link |-> << [ text |-> JudgmentName,
                    onclick |-> <<"openPDF(", "'", "u3", "'", ")">> ] >> ],
    \* no link in the third cell
    [ cells |-> 3, date |-> "d4", link |-> <<>> ],
    \* other link text, containing a target name
    [ cells |-> 3, date |-> "d5",
      link |-> << [ text |-> <<"AMENDED">> \o NoticeName,
                    onclick |-> <<"openPDF(", "'", "u5", "'", ")">> ] >> ],
    \* a target name without a handler
    [ cells |-> 3, date |-> "d6",
      link |-> << [ text |-> NoticeName, onclick |-> <<>> ] >> ],
    \* a target name whose handler has no quoted openPDF argument
    [ cells |-> 3, date |-> "d7",
      link |-> << [ text |-> JudgmentName,
                    onclick |-> <<"openPDF(", "u7", ")">> ] >> ],
    [ cells |-> 3, date |-> "d8",
      link |-> << [ text |-> NoticeName,
                    onclick |-> <<"openWindow(", "'", "u8", "'", ")">> ] >> ] }

Tables == UNION { [1..n -> RowKinds] : n \in 0..MaxRows }

\* (the no-button branch without its return: the run goes on to the documents page)
AfterNoButtonNoReturn == "gotoEfiled"

\* The position after the no-button branch has set the error: the status write
\* (src/scrape-case.js only), then `await page.close(); return result;`.
AfterNoButton == Via("dash_nobutton", "closeNoButton")

\* const efiledOnclick = await page.$eval('input[onclick*="openDocumentWindow"]',
\*   ...).catch(() => null);  if (!efiledOnclick) { result.error = 'No eFiled docs button' ...
\* const efiledParams = efiledOnclick.match(...)[1]...
\* $eval rejects when no element matches; the rejection is swallowed into null.
EvalEfiled ==
  /\ pc = "evalEfiled"
  /\ calls' = Append(calls, [op |-> "$eval", arg |-> "openDocumentWindow"])
  /\ \/ \E efiledOnclick \in Handlers :
          /\ env' = Append(env, efiledOnclick)
          /\ IF ParsesArgs(efiledOnclick)
             THEN /\ pc' = "gotoEfiled"
                  /\ UNCHANGED <<result, failures, terminal, caught>>
             ELSE Raise("match")
     \/ /\ failures' = Append(failures, "$eval")
        /\ env' = Append(env, "absent")
        /\ result' = [result EXCEPT !.error = ErrNoButton]
        /\ terminal' = "no_docs_button"
        /\ UNCHANGED caught
        /\ pc' = AfterNoButton
  /\ UNCHANGED <<first, searchPage, classified, variant, pool, argv, page, sinkLog,
                 dirs, files, docTable, attempts, idx, downloaded, returned, exitCode>>

\* await page.goto(efiledUrl, { waitUntil: 'networkidle2', timeout: 60000 })
GotoEfiled == PlainCall("gotoEfiled", [op |-> "goto", arg |-> EFILED_URL], "scanDocs")

\* const docs = await page.evaluate(...scan...);
\* if (docs.length === 0) { result.error = 'No target documents found'; ... }
\* result.documents = docs;
ScanDocuments ==
  /\ pc = "scanDocs"
  /\ calls' = Append(calls, [op |-> "evaluate", arg |-> "scan"])
  /\ \/ \E rows \in Tables :
          LET docs == ScanDocs(rows)
          IN /\ docTable' = rows
             /\ IF Len(docs) = 0
                THEN /\ result' = [result EXCEPT !.error = ErrNoTargetDocs]
                     /\ terminal' = "no_target_docs"
                     /\ pc' = Via("dash_nodocs", "closeNoDocs")
                ELSE /\ result' = [result EXCEPT !.documents = docs]
                     /\ pc' = Via("dash_pdfs0", "download")
                     /\ UNCHANGED terminal
             /\ env' = Append(env, "table")
             /\ UNCHANGED <<failures, caught>>
     \/ /\ Raise("evaluate")
        /\ env' = Append(env, "raise")
        /\ UNCHANGED docTable
  /\ UNCHANGED <<first, searchPage, classified, variant, pool, argv, page, sinkLog,
                 dirs, files, attempts, idx, downloaded, returned, exitCode>>

-----------------------------------------------------------------------------
(* Document Fetcher *)

\* What one pass through the try block of the download loop can do:
\*   ok            fetch resolves with a 2xx response, the body is written
\*   non2xx        fetch resolves with a non-2xx response (fetch rejects only on
\*                 network errors, and res.ok / res.status are never read)
\*   fetchError    the in-page fetch rejects, so page.evaluate rejects
\*   decodeError   evaluate resolves to undefined (no data after the comma) and
\*                 Buffer.from(undefined, 'base64') raises
\*   writeErrorOpen, writeErrorPartial
\*                 fs.writeFileSync raises before, or after, truncating the file
FetchOutcomes ==
  {"ok", "non2xx", "fetchError", "decodeError", "writeErrorOpen", "writeErrorPartial"}

\* Outcomes after which the statements following writeFileSync run.
Completes(outcome) == outcome \in {"ok", "non2xx"}

\* The operation that raised, for the outcomes that raise.
RaisedBy(outcome) ==
  CASE outcome = "fetchError" -> "evaluate"
    [] outcome = "decodeError" -> "Buffer.from"
    [] outcome \in {"writeErrorOpen", "writeErrorPartial"} -> "writeFileSync"

\* The bytes a completed pass writes: the response body, whatever the status.
BodyOf(outcome) == IF outcome = "ok" THEN "pdf" ELSE "errorpage"

\* result.pdfs[doc.type] = filepath
SetPdf(pdfs, type, filepath) ==
  [t \in DOMAIN pdfs \cup {type} |-> IF t = type THEN filepath ELSE pdfs[t]]

\* (the loop body without its own try/catch: the failure reaches the outer catch)
NoInnerCatch(op) == Raise(op)

\* } catch (e) { // Continue on error }  around the body of the loop: the
\* failure raised by op is dropped and the loop goes on to the next document.
SwallowDownloadFailure(op) ==
  /\ failures' = Append(failures, op)
  /\ pc' = "download"
  /\ UNCHANGED <<result, terminal, caught>>

\* (the loop without its progress write)
NoProgressWrite == "download"

\* The position after a completed pass: in src/scrape-case.js the progress
\* write, which sits inside the try block after downloaded++.
AfterCompletedPass == Via("dash_progress", "download")

\* One iteration of `for (const doc of docs)`: the try block and its empty catch.
DownloadAttempt ==
  /\ pc = "download"
  /\ idx <= Len(result.documents)
  /\ LET doc == result.documents[idx]
         filepath == FilePathOf(result.caseDir, doc.type)
     IN /\ calls' = Append(calls, [op |-> "evaluate", arg |-> "fetch"])
        /\ \E outcome \in FetchOutcomes :
             /\ env' = Append(env, outcome)
             /\ attempts' = Append(attempts, [idx |-> idx, type |-> doc.type,
                                              url |-> doc.url, outcome |-> outcome,
                                              recorded |-> Completes(outcome)])
             /\ IF Completes(outcome)
                THEN /\ files' = (filepath :> [idx |-> idx, url |-> doc.url,
                                               body |-> BodyOf(outcome)]) @@ files
                     /\ result' = [result EXCEPT
                                     !.pdfs = SetPdf(result.pdfs, doc.type, filepath)]
                     /\ downloaded' = downloaded + 1
                     /\ pc' = AfterCompletedPass
                     /\ UNCHANGED <<failures, terminal, caught>>
                ELSE /\ files' = IF outcome = "writeErrorPartial"
                                 THEN (filepath :> [idx |-> idx, url |-> doc.url,
                                                    body |-> "partial"]) @@ files
                                 ELSE files
                     /\ SwallowDownloadFailure(RaisedBy(outcome))
                     /\ UNCHANGED downloaded
  /\ idx' = idx + 1
  /\ UNCHANGED <<first, searchPage, classified, variant, pool, argv, page, sinkLog,
                 dirs, docTable, returned, exitCode>>

\* (success decided without looking at pdfs)
SuccessAlways(pdfs) == TRUE

\* Object.keys(result.pdfs).length > 0
SuccessOf(pdfs) == DOMAIN pdfs # {}

\* (the close after the loop without `page = null`)
PageAfterCloseKept == "page"

\* await page.close(); page = null;  after the loop: the value of `page` from
\* then on.
PageAfterClose == "null"

\* After the loop: await page.close(); page = null;
\* result.success = Object.keys(result.pdfs).length > 0;
\* if (result.success) await updateDashboard(... 'PDFs downloaded, ready for scan')
CloseAfterDownloads ==
  /\ pc = "download"
  /\ idx > Len(result.documents)
  /\ calls' = Append(calls, [op |-> "close", arg |-> ""])
  /\ \/ /\ page' = PageAfterClose
        /\ result' = [result EXCEPT !.success = SuccessOf(result.pdfs)]
        /\ terminal' = "done"
        /\ pc' = IF SuccessOf(result.pdfs) THEN Via("dash_ready", "finally") ELSE "finally"
        /\ env' = Append(env, "ok")
        /\ UNCHANGED <<failures, caught>>
     \/ /\ Raise("close")
        /\ env' = Append(env, "raise")
        /\ UNCHANGED page
  /\ UNCHANGED <<first, searchPage, classified, variant, pool, argv, sinkLog, dirs,
                 files, docTable, attempts, idx, downloaded, returned, exitCode>>

\* finally { if (page) await page.close().catch(() => {}); }  return result;
Finally ==
  /\ pc = "finally"
  /\ IF page = "page"
     THEN /\ calls' = Append(calls, [op |-> "close", arg |-> ""])
          /\ \E closeFailed \in BOOLEAN :
               /\ failures' = IF closeFailed THEN Append(failures, "close") ELSE failures
               /\ env' = Append(env, IF closeFailed THEN "raise" ELSE "ok")
     ELSE UNCHANGED <<calls, failures, env>>
  /\ returned' = "result"
  /\ pc' = "returned"
  /\ UNCHANGED <<first, searchPage, classified, variant, pool, argv, result, page,
                 sinkLog, dirs, files, docTable, attempts, idx, downloaded, terminal,
                 caught, exitCode>>

-----------------------------------------------------------------------------
(* The entry point after scrapeCase settles *)

\* src/scrape-case.js: scrapeCase(...).then(r => { console.log(JSON.stringify(r,
\* null, 2)); return cleanup(); })  -- the first of its two callbacks.
MainPrint ==
  /\ pc = "returned"
  /\ variant = "dashboard"
  /\ pc' = "exit"
  /\ UNCHANGED <<env, first, searchPage, classified, variant, pool, argv, result, page,
                 calls, sinkLog, dirs, files, docTable, attempts, idx, downloaded,
                 failures, terminal, caught, returned, exitCode>>

\* The status the process ends with once the result r has been printed.
\* src/unnamed/part_001: process.exit(r.success ? 0 : 1) inside the callback
\* that receives r.  src/scrape-case.js: process.exit(r?.success ? 0 : 1) in a
\* second callback, () => {...}, where r is not in scope: evaluating r raises a
\* ReferenceError, the promise chain rejects with no handler, and the runtime
\* (Node.js 18+, per the README) ends the process with status 1.
ExitStatus(v, r) ==
  IF v = "basic" THEN (IF r.success THEN 0 ELSE 1) ELSE 1

\* The callback that exits: in src/unnamed/part_001 the one that receives r
\* (it prints, then exits); in src/scrape-case.js the second one.
MainExit ==
  /\ \/ pc = "exit"
     \/ pc = "returned" /\ variant = "basic"
  /\ exitCode' = << ExitStatus(variant, result) >>
  /\ pc' = "exited"
  /\ UNCHANGED <<env, first, searchPage, classified, variant, pool, argv, result, page,
                 calls, sinkLog, dirs, files, docTable, attempts, idx, downloaded,
                 failures, terminal, caught, returned>>

\* scrapeCase rejected: neither then-callback runs and nothing handles the
\* rejection, so the runtime ends the process with status 1.
UnhandledRejection ==
  /\ pc = "rejected"
  /\ exitCode' = <<1>>
  /\ pc' = "exited"
  /\ UNCHANGED <<env, first, searchPage, classified, variant, pool, argv, result, page,
                 calls, sinkLog, dirs, files, docTable, attempts, idx, downloaded,
                 failures, terminal, caught, returned>>

-----------------------------------------------------------------------------
(* Specification *)

\* The command lines tried: both arguments, or the second one missing.
ArgVectors ==
  { <<i, c>> : i \in IndexNumbers, c \in Counties } \cup { <<i>> : i \in IndexNumbers }

Init ==
  /\ variant \in Variants
  /\ pool \in (IF variant = "dashboard" THEN BOOLEAN ELSE {FALSE})
  /\ argv \in ArgVectors
  /\ pc = "main"
  /\ result = InitialResult(<<>>, "")
  /\ page = "undefined"
  /\ calls = <<>>
  /\ sinkLog = <<>>
  /\ dirs = {}
  /\ files = <<>>
  /\ docTable = <<>>
  /\ attempts = <<>>
  /\ idx = 1
  /\ downloaded = 0
  /\ failures = <<>>
  /\ terminal = "none"
  /\ caught = FALSE
  /\ returned = "none"
  /\ exitCode = <<>>
  /\ env = <<>>
  /\ searchPage = <<>>
  /\ classified = "none"
  /\ first = <<>>

\* The awaited steps of scrapeCase, the settling of a sink write aside.
ScrapeCase ==
  \/ MakeCaseDir
  \/ UpdateDashboard
  \/ Connect
  \/ NewPage
  \/ GotoSearch
  \/ WaitSelector
  \/ TypeIndex
  \/ EvalCounty
  \/ SelectCounty
  \/ SubmitSearch
  \/ QueryCaptcha
  \/ QueryCaseLink
  \/ CloseChallenge
  \/ CloseNotFound
  \/ CloseNoButton
  \/ CloseNoDocs
  \/ EvalCaseOnclick
  \/ GotoCase
  \/ EvalCaseText
  \/ EvalEfiled
  \/ GotoEfiled
  \/ ScanDocuments
  \/ DownloadAttempt
  \/ CloseAfterDownloads
  \/ Finally

\* The callbacks of the entry point.
Main ==
  \/ MainStart
  \/ MainPrint
  \/ MainExit
  \/ UnhandledRejection

Next ==
  \/ Main
  \/ ScrapeCase
  \/ PoolQuerySettles

Spec == Init /\ [][Next]_vars

\* Every callback and every awaited browser or file-system call gets its turn:
\* the event loop runs a continuation once its promise has settled, and each
\* capability call settles, by completing or by raising.  Nothing makes the
\* status sink answer, so the settling of a sink write is left without fairness.
FairSpec == Spec /\ WF_vars(Main \/ ScrapeCase)

-----------------------------------------------------------------------------
(* Two runs on the same inputs *)

\* What a finished run leaves to compare: the sink it ran with, what the
\* browser, the page and the file system answered, and what scrapeCase did.
OutcomeOfRun ==
  [ pool |-> pool, env |-> env, searchPage |-> searchPage, docTable |-> docTable,
    returned |-> returned, result |-> result, calls |-> calls, files |-> files ]

\* scrapeCase is invoked again with the same arguments, this time with a sink
\* configured, every variable of the run back at its initial value.
Rerun ==
  /\ pc \in {"returned", "rejected"}
  /\ first = <<>>
  /\ first' = << OutcomeOfRun >>
  /\ pool' = TRUE
  /\ pc' = "mkdir"
  /\ result' = InitialResult(<<>>, "")
  /\ page' = "undefined"
  /\ calls' = <<>>
  /\ sinkLog' = <<>>
  /\ dirs' = {}
  /\ files' = <<>>
  /\ docTable' = <<>>
  /\ attempts' = <<>>
  /\ idx' = 1
  /\ downloaded' = 0
  /\ failures' = <<>>
  /\ terminal' = "none"
  /\ caught' = FALSE
  /\ returned' = "none"
  /\ env' = <<>>
  /\ searchPage' = <<>>
  /\ classified' = "none"
  /\ UNCHANGED <<variant, argv, exitCode>>

\* The browser, the page and the file system have answered the second run as
\* they answered the first one, as far as the second run has asked.
SameAnswers ==
  /\ Len(env) <= Len(first[1].env)
  /\ env = SubSeq(first[1].env, 1, Len(env))
  /\ searchPage # <<>> => searchPage = first[1].searchPage
  /\ (\E k \in 1..Len(env) : env[k] = "table") => docTable = first[1].docTable

FirstRun ==
  /\ first = <<>>
  /\ ScrapeCase \/ PoolQuerySettles
  /\ Len(docTable') <= MaxRowsShort

SecondRun ==
  /\ first # <<>>
  /\ ScrapeCase \/ PoolQuerySettles
  /\ SameAnswers'

PairInit == Init /\ variant = "dashboard" /\ ~pool /\ Len(argv) = 2

PairNext ==
  \/ MainStart
  \/ FirstRun
  \/ Rerun
  \/ SecondRun

\* scrapeCase run twice on the same arguments against the same behaviour of
\* the browser and page: first without a sink, then with one, each of whose
\* writes succeeds or fails.  (Two runs that both equal the run without a sink
\* equal each other.)
PairSpec == PairInit /\ [][PairNext]_vars

-----------------------------------------------------------------------------
(* Runs over several index numbers and download directories *)

\* Index numbers with one separator, with two and with none.
DirIndexNumbers ==
  IndexNumbers \cup { <<"1", "/", "2", "4">>, <<"7", "/", "2", "/", "5">>, <<"7", "2", "5">> }

\* The state at process start, for any of these index numbers, with the case
\* directory absent or left behind by an earlier run.
DirInit ==
  /\ variant \in Variants
  /\ pool = (variant = "dashboard")
  /\ argv \in { <<i, c>> : i \in DirIndexNumbers, c \in Counties }
  /\ dirs \in { {}, {CaseDirOf(argv[1])} }
  /\ pc = "main"
  /\ result = InitialResult(<<>>, "")
  /\ page = "undefined"
  /\ calls = <<>>
  /\ sinkLog = <<>>
  /\ files = <<>>
  /\ docTable = <<>>
  /\ attempts = <<>>
  /\ idx = 1
  /\ downloaded = 0
  /\ failures = <<>>
  /\ terminal = "none"
  /\ caught = FALSE
  /\ returned = "none"
  /\ exitCode = <<>>
  /\ env = <<>>
  /\ searchPage = <<>>
  /\ classified = "none"
  /\ first = <<>>

DirNext == Next /\ Len(docTable') <= MaxRowsShort

DirSpec == DirInit /\ [][DirNext]_vars

-----------------------------------------------------------------------------
(* Observations used by the properties *)

Returned == returned = "result"

CallsOf(op) == SelectSeq(calls, LAMBDA c : c.op = op)

\* The URLs navigated to, in order.
GotoLog == [k \in 1..Len(CallsOf("goto")) |-> CallsOf("goto")[k].arg]

\* How many times page.close() was invoked.
CloseCount == Len(CallsOf("close"))

\* How many in-page document fetches were issued.
FetchCount == Len(SelectSeq(calls, LAMBDA c : c.op = "evaluate" /\ c.arg = "fetch"))

ShortCircuits == {"challenge", "not_found", "no_docs_button", "no_target_docs"}

\* Download passes that ran to the end of the try block.
CompletedPasses == {k \in 1..Len(attempts) : Completes(attempts[k].outcome)}

\* The progress writes the sink received, in order.
ProgressReports ==
  LET w == SelectSeq(sinkLog, LAMBDA e : e.step[1] = "Getting PDFs")
  IN [k \in 1..Len(w) |-> w[k].step]

-----------------------------------------------------------------------------
(* C1 *)

\* C1: in every returned result, on every exit path, success is true if and
\* only if pdfs has at least one entry.  (Violated: a tab close that raises
\* after the download loop leaves success false with pdfs already filled.)
C1_SuccessIffPdfs ==
  Returned => (result.success <=> DOMAIN result.pdfs # {})

(* C2 *)

\* C2: once a page has been opened, close is invoked on it exactly once before
\* scrapeCase returns, on every exit path.  (Violated: the early returns close
\* the page and leave `page` set, so the finally block closes it again.)
C2_CloseExactlyOnce ==
  (Returned /\ page # "undefined") => CloseCount = 1

(* C3 *)

\* C3: run with both arguments, the process exits with status 0 if the result
\* has success = true and with status 1 otherwise, in each script variant.
\* (Violated: src/scrape-case.js never exits with 0.)
C3_ExitStatus ==
  (pc = "exited" /\ Len(argv) = 2) =>
     exitCode = << IF Returned /\ result.success THEN 0 ELSE 1 >>

(* C4 *)

\* C4: if the challenge query after the submit finds a marker, then from that
\* point on and in the returned result hcaptchaDetected is true, success is
\* false, caseInfo is absent, documents and pdfs are empty, the only navigation
\* of the run is the one to the search page and no document fetch is issued.
C4_ChallengeShortCircuits ==
  terminal = "challenge" =>
     /\ result.hcaptchaDetected
     /\ ~result.success
     /\ result.caseInfo = <<>>
     /\ result.documents = <<>>
     /\ DOMAIN result.pdfs = {}
     /\ GotoLog = <<SEARCH_URL>>
     /\ FetchCount = 0
     /\ files = <<>>

\* A run that found the challenge marker and returned its result.
C4_Witness == terminal = "challenge" /\ Returned

(* C5 *)

\* The error string the code documents for each short-circuit state.
C5_ErrorOf(t) ==
  CASE t = "challenge" -> "hCaptcha detected"
    [] t = "not_found" -> "No case found"
    [] t = "no_docs_button" -> "No eFiled docs button"
    [] t = "no_target_docs" -> "No target documents found"

C6_ListedOps ==
  {"mkdir", "connect", "newPage", "goto", "waitForSelector", "waitForNavigation",
   "type", "click", "evaluate", "close"}

\* C6: no exception escapes scrapeCase: when one of the listed operations
\* failed, scrapeCase still returns a result, with success = false and error
\* equal to that failure's message.  (Violated: mkdirSync runs before the try.)
C6_NoExceptionEscapes ==
  (returned # "none" /\ \E k \in 1..Len(failures) : failures[k] \in C6_ListedOps) =>
     /\ Returned
     /\ ~result.success
     /\ \E k \in 1..Len(failures) :
          failures[k] \in C6_ListedOps /\ result.error = ErrMsg(failures[k])

(* C7 *)

\* C7: in the download stage every record of documents is attempted, in list
\* order, whatever the outcome of earlier attempts: a failed attempt does not
\* set error, does not stop the loop and does not keep the run from the tab
\* close that leads to done; a type all of whose attempts failed is absent
\* from pdfs.
C7_EveryDocumentAttempted ==
  /\ \A k \in 1..Len(attempts) :
       /\ k <= Len(result.documents)
       /\ attempts[k].idx = k
       /\ attempts[k].type = result.documents[k].type
       /\ attempts[k].url = result.documents[k].url
  /\ pc \in {"download", "dash_progress"} =>
       /\ idx = Len(attempts) + 1
       /\ result.error = Null
       /\ ~caught
  /\ (returned # "none" /\ result.documents # <<>>) =>
       /\ Len(attempts) = Len(result.documents)
       /\ IF terminal = "done" THEN result.error = Null
          ELSE caught /\ result.error = ErrMsg("close")
  /\ \A t \in DOMAIN result.pdfs :
       \E k \in CompletedPasses : attempts[k].type = t

\* A run that reached done although its first download attempt failed and a
\* later one was made.
C7_Witness ==
  /\ Returned
  /\ terminal = "done"
  /\ Len(attempts) >= 2
  /\ ~Completes(attempts[1].outcome)
  /\ Completes(attempts[2].outcome)

(* C8 *)

\* C8: a fetch that completes with a non-2xx response counts as a download
\* failure: that attempt sets no pdfs entry and its response body is not
\* written as a downloaded PDF.  (Violated: the response status is never read.)
C8_Non2xxIsFailure ==
  /\ \A k \in 1..Len(attempts) :
       attempts[k].outcome = "non2xx" => ~attempts[k].recorded
  /\ \A f \in DOMAIN files : files[f].body # "errorpage"

(* C9 *)

\* C9 (as claimed): with the sink configured, a progress report follows every
\* download attempt, failed or not: after n attempts the sink has received the
\* initial 0/N report and n more.
C9_ReportAfterEveryAttempt ==
  (pool /\ pc = "download") => Len(ProgressReports) = 1 + Len(attempts)

\* C9 (amended): with the sink configured, a progress report follows every
\* download attempt that completed and none follows a failed one: after the
\* initial 0/N report the sink has received exactly the reports 1/N .. k/N, in
\* order, k being the number of attempts completed so far.
C9_ReportAfterEveryCompletedPass ==
  (pool /\ pc = "download") =>
     ProgressReports =
       [j \in 1..(1 + Cardinality(CompletedPasses)) |->
          <<"Getting PDFs", j - 1, Len(result.documents)>>]

\* The loop has ended with the sink configured, one attempt failed and one
\* completed.
C9_Witness ==
  /\ pool
  /\ pc = "download"
  /\ idx > Len(result.documents)
  /\ Cardinality(CompletedPasses) = 1
  /\ Len(attempts) = 2

(* C10 *)

\* The handler invokes openPDF with a quoted argument occupying tokens p+2..q-1.
C10_QuotedArgAt(onclick, p, q) ==
  /\ p >= 1 /\ q <= Len(onclick) /\ q > p + 2
  /\ onclick[p] = "openPDF("
  /\ onclick[p + 1] \in Quotes
  /\ onclick[q] \in Quotes
  /\ \A r \in (p + 2)..(q - 1) : onclick[r] \notin Quotes

\* The tokens at which the handler invokes openPDF with a quoted argument.
C10_QuotedArgs(onclick) ==
  { p \in 1..Len(onclick) :
      \E q \in (p + 3)..Len(onclick) : C10_QuotedArgAt(onclick, p, q) }

\* The link text of a row, surrounding white space aside.
C10_TextOf(row) == Trim(row.link[1].text)

\* The rows the claim says yield a record.
C10_Qualifies(row) ==
  /\ row.cells >= 3
  /\ row.link # <<>>
  /\ C10_TextOf(row) \in {JudgmentName, NoticeName}
  /\ C10_QuotedArgs(row.link[1].onclick) # {}

\* The record the claim says such a row yields.
C10_RecordOf(row) ==
  LET onclick == row.link[1].onclick
      args == C10_QuotedArgs(onclick)
      p == CHOOSE x \in args : \A y \in args : x <= y
      q == CHOOSE x \in (p + 3)..Len(onclick) : C10_QuotedArgAt(onclick, p, x)
  IN [ name |-> C10_TextOf(row),
       type |-> IF C10_TextOf(row) = JudgmentName THEN "judgment" ELSE "notice",
       url |-> SubSeq(onclick, p + 2, q - 1),
       date |-> row.date ]

C10_Expected(rows) ==
  LET q == SelectSeq(rows, C10_Qualifies)
  IN [k \in 1..Len(q) |-> C10_RecordOf(q[k])]

\* C10: the scan yields a record for a row if and only if the row has at least
\* three cells, the link in its third cell has text equal to one of the two
\* target names and the link's handler invokes openPDF with a quoted argument;
\* the record's url is that argument and its type is judgment exactly for the
\* judgment name.  Every other row contributes nothing to documents or pdfs
\* and raises no error.
C10_ScanYieldsExactlyTargets ==
  /\ result.documents = C10_Expected(docTable)
  /\ \A t \in DOMAIN result.pdfs :
       \E k \in 1..Len(result.documents) : result.documents[k].type = t
  /\ pc \in {"dash_pdfs0", "dash_nodocs", "closeNoDocs"} =>
       ~caught /\ result.error \in {Null, ErrNoTargetDocs}

\* The scan read a table with one row that qualifies and one that does not.
C10_Witness ==
  /\ Len(docTable) = 2
  /\ Len(result.documents) = 1
  /\ pc \in {"dash_pdfs0", "download"}

(* C11 *)

\* The records of documents that carry type t.
RecordsOfType(t) == {k \in 1..Len(result.documents) : result.documents[k].type = t}

\* C11: in every returned result documents holds at most one record of type
\* judgment and at most one of type notice, hence at most two records and at
\* most two download attempts, whatever the table.  (Violated: the scan pushes
\* a record for every matching row, so two rows with the same target name
\* give two records of one type.)
C11_AtMostOneRecordPerType ==
  Returned =>
     /\ \A t \in {"judgment", "notice"} : Cardinality(RecordsOfType(t)) <= 1
     /\ Len(result.documents) <= 2
     /\ Len(attempts) <= 2

(* C12 *)

\* The last record of type t in documents, the last one the loop processes.
LastOfType(t) == CHOOSE k \in RecordsOfType(t) : \A j \in RecordsOfType(t) : j <= k

\* C12: once the download loop has ended, for every type with an entry in
\* pdfs the file the entry names holds the download of the last-processed row
\* of that type, whichever rows of that type succeeded or failed.  (Violated:
\* when the last row of a type fails after an earlier one succeeded, the entry
\* and the file are those of the earlier row.)
C12_LastRowWins ==
  (pc = "download" /\ idx > Len(result.documents)) =>
     \A t \in DOMAIN result.pdfs :
        /\ result.pdfs[t] \in DOMAIN files
        /\ files[result.pdfs[t]].idx = LastOfType(t)
        /\ files[result.pdfs[t]].url = result.documents[LastOfType(t)].url
        /\ files[result.pdfs[t]].body = BodyOf(attempts[LastOfType(t)].outcome)

(* C16 *)

\* The stage a capability call belongs to: 1 connecting, 2 searching,
\* 3 extracting_info, 4 locating_docs, 5 downloading, 6 the tab close that
\* ends the run.
C16_StageOfCall(c) ==
  CASE c.op \in {"connect", "newPage"} -> 1
    [] c.op = "goto" /\ c.arg = SEARCH_URL -> 2
    [] c.op \in {"waitForSelector", "type", "select", "click", "waitForNavigation", "$"} -> 2
    [] c.op = "evaluate" /\ c.arg = "county" -> 2
    [] c.op = "$eval" /\ c.arg = "data-sitekey" -> 2
    [] c.op = "$eval" /\ c.arg = "openCaseDetailsWindow" -> 3
    [] c.op = "goto" /\ c.arg = CASE_URL -> 3
    [] c.op = "evaluate" /\ c.arg = "innerText" -> 3
    [] c.op = "$eval" /\ c.arg = "openDocumentWindow" -> 4
    [] c.op = "goto" /\ c.arg = EFILED_URL -> 4
    [] c.op = "evaluate" /\ c.arg = "scan" -> 4
    [] c.op = "evaluate" /\ c.arg = "fetch" -> 5
    [] c.op = "close" -> 6

\* C16: the fetch stage runs only after at least one target document has been
\* listed: a run that reached challenge, not_found, no_docs_button or
\* no_target_docs issues no in-page fetch, writes no file and leaves pdfs
\* empty; every fetch is preceded by a scan that listed a document; and the
\* stages are entered in forward order only, each at most once (no call of a
\* stage follows a call of a later one, and the three navigations happen in
\* order, once each at most).
C16_FetchOnlyAfterListing ==
  /\ terminal \in ShortCircuits =>
       /\ FetchCount = 0
       /\ files = <<>>
       /\ DOMAIN result.pdfs = {}
       /\ attempts = <<>>
  /\ (FetchCount > 0 \/ files # <<>> \/ DOMAIN result.pdfs # {}) =>
       /\ result.documents # <<>>
       /\ GotoLog = <<SEARCH_URL, CASE_URL, EFILED_URL>>
  /\ \A k \in 1..(Len(calls) - 1) :
       C16_StageOfCall(calls[k]) <= C16_StageOfCall(calls[k + 1])
  /\ LET log == GotoLog
     IN /\ Len(log) <= 3
        /\ log = SubSeq(<<SEARCH_URL, CASE_URL, EFILED_URL>>, 1, Len(log))

\* A run that ended at no_target_docs, and so passed through the first four
\* stages without entering the download stage.
C16_Witness == Returned /\ terminal = "no_target_docs" /\ ~caught

(* C20 *)

\* A returned run that listed at least one document and whose download
\* attempts, one per record, all failed.
C20_EveryDownloadFailed ==
  /\ Returned
  /\ result.documents # <<>>
  /\ Len(attempts) = Len(result.documents)
  /\ CompletedPasses = {}

\* Each key of pdfs is the type of some record in documents.
C20_PdfKeysAreListedTypes ==
  \A t \in DOMAIN result.pdfs : RecordsOfType(t) # {}

\* C20 (as claimed): a run that lists at least one target document and in
\* which every download attempt fails reaches done and returns success =
\* false with pdfs empty, documents non-empty and error still null; and in
\* every returned result each key of pdfs is the type of a listed record.
C20_AllFailedReachesDone ==
  /\ C20_EveryDownloadFailed =>
       /\ terminal = "done"
       /\ ~result.success
       /\ DOMAIN result.pdfs = {}
       /\ result.error = Null
  /\ Returned => C20_PdfKeysAreListedTypes

\* C20 (amended): such a run returns success = false with pdfs empty and
\* documents non-empty; it reaches done with error still null unless the tab
\* close after the loop raises, in which case it does not reach done and
\* error is the message of that failure.  In every returned result each key
\* of pdfs is the type of a listed record.
C20_AllFailedReachesDoneUnlessCloseRaises ==
  /\ C20_EveryDownloadFailed =>
       /\ ~result.success
       /\ DOMAIN result.pdfs = {}
       /\ IF caught
          THEN terminal = "none" /\ result.error = ErrMsg("close")
          ELSE terminal = "done" /\ result.error = Null
  /\ Returned => C20_PdfKeysAreListedTypes

\* A run that listed two documents, failed both downloads and returned from
\* done without an error string.
C20_Witness ==
  /\ C20_EveryDownloadFailed
  /\ Len(result.documents) = 2
  /\ terminal = "done"
  /\ result.error = Null

(* C13 *)

\* C13: the status sink cannot influence the pipeline: a run with a sink,
\* whichever of its sink writes succeed or fail, that gets the same answers
\* from the browser, the page and the file system as a run on the same
\* arguments without a sink returns the same ScrapeResult, issues the same
\* sequence of capability calls and writes the same files as that run.
C13_SinkCannotInfluence ==
  (first # <<>> /\ returned # "none") =>
     /\ returned = first[1].returned
     /\ env = first[1].env
     /\ result = first[1].result
     /\ calls = first[1].calls
     /\ files = first[1].files

\* A run without a sink and then one with a sink, both of which downloaded a
\* document and returned.
C13_Witness ==
  /\ first # <<>>
  /\ ~first[1].pool
  /\ pool
  /\ Returned
  /\ result.success
  /\ Len(sinkLog) >= 6
  /\ files # <<>>

(* C14 *)

\* C14: status-sink writes are fire-and-forget: the run never waits for a
\* sink write to complete, so whenever a write has been sent and has not
\* settled, scrapeCase has a next step it can take.  (Violated: the write is
\* awaited, so until it settles no step of scrapeCase is possible.)
C14_NeverWaitsForSink ==
  SinkPending => ENABLED ScrapeCase

(* C18 *)

\* C18: every invocation of scrapeCase eventually settles: with every
\* capability call completing or raising, a run that has entered scrapeCase
\* reaches one of its terminal states and returns, and never waits forever
\* short of that.  (Violated: with a sink configured the run waits for each
\* sink write, and a write that never settles keeps it at that call.)
C18_EventuallyReturns ==
  (pc = "mkdir") ~> (returned # "none")

(* C19 *)

\* C19: wherever success is true, error is null and hcaptchaDetected is
\* false; success becomes true only after the tab close that follows the
\* download stage (the close is the last capability call, the run reached
\* done, `page` is null and no exception was caught); and no later step sets
\* error or resets success: a run that reached done with a download recorded
\* keeps success = true.
C19_SuccessIsFinal ==
  /\ result.success =>
       /\ result.error = Null
       /\ ~result.hcaptchaDetected
       /\ terminal = "done"
       /\ ~caught
       /\ page = "null"
       /\ calls[Len(calls)].op = "close"
       /\ CloseCount = 1
       /\ pc \in {"dash_ready", "finally", "returned", "exit", "exited"}
  /\ (terminal = "done" /\ DOMAIN result.pdfs # {}) => result.success

\* A run with a sink that returned success = true after its last status write
\* had settled.
C19_Witness ==
  /\ Returned
  /\ result.success
  /\ pool
  /\ sinkLog[Len(sinkLog)].step = <<"PDFs downloaded, ready for scan">>
  /\ sinkLog[Len(sinkLog)].settled

(* C17 *)

\* The class the claim gives a page: challenge markers are looked at first.
C17_ClassOf(shown) ==
  IF shown.challenge # "none" THEN "challenge"
  ELSE IF shown.anchor THEN "case_found" ELSE "not_found"

\* C17: the Case Locator puts the page shown after the submit into exactly
\* one of challenge-detected, case-not-found and case-found, looking for
\* challenge markers first: a page with a marker is challenge-detected whether
\* or not it also has a case anchor and whether or not the marker carries a
\* site key, and the case anchor is then never looked up.  A navigation wait
\* that timed out and a county that resolved to no option do not end the run
\* in failure: the run reaches the classification with no error set.
C17_ClassifiesChallengeFirst ==
  /\ classified # "none" =>
       /\ searchPage # <<>>
       /\ classified = C17_ClassOf(searchPage[1])
       /\ result.hcaptchaDetected <=> classified = "challenge"
       /\ terminal = "challenge" <=> classified = "challenge"
       /\ terminal = "not_found" <=> classified = "not_found"
  /\ classified = "challenge" =>
       /\ \A k \in 1..Len(calls) : calls[k].arg # "openCaseDetailsWindow"
       /\ GotoLog = <<SEARCH_URL>>
       /\ result.hcaptchaSitekey =
            (IF searchPage[1].challenge = "sitekey" THEN "sitekey" ELSE Null)
  /\ pc = "queryCaptcha" => ~caught /\ result.error = Null
  /\ (~caught /\ classified = "case_found" /\ terminal = "none") => result.error = Null

\* A page with a challenge widget that carries no site key and with a case
\* anchor, reached after the navigation wait timed out and the county
\* resolved to no option, was classified challenge-detected and returned.
C17_Witness ==
  /\ Returned
  /\ classified = "challenge"
  /\ searchPage[1].challenge = "widget"
  /\ searchPage[1].anchor
  /\ result.hcaptchaSitekey = Null
  /\ \E k \in 1..Len(failures) : failures[k] = "waitForNavigation"
  /\ CallsOf("select") = <<>>

(* C15 *)

\* An index number of the documented form: one separator.
C15_WellFormed(indexNumber) ==
  Cardinality({k \in 1..Len(indexNumber) : indexNumber[k] = "/"}) = 1

\* The index number with '/' replaced by '-'.
C15_Dashed(indexNumber) ==
  [k \in 1..Len(indexNumber) |-> IF indexNumber[k] = "/" THEN "-" ELSE indexNumber[k]]

\* The case directory the claim names: the base joined with the dashed index number.
C15_DirOf(indexNumber) == Append(DOWNLOAD_DIR, C15_Dashed(indexNumber))

\* C15: for every well-formed index number, caseDir is the base directory
\* joined with the index number with '/' replaced by '-'; that directory
\* exists before the browser connection and before any navigation, and when
\* scrapeCase returns, whatever the outcome; and creating it when it is
\* already there is not an error: mkdir raises only on a file-system fault.
C15_CaseDirCreatedFirst ==
  C15_WellFormed(argv[1]) =>
     /\ (pc \notin {"main", "mkdir", "rejected"} /\ returned # "rejected") =>
          result.caseDir = C15_DirOf(argv[1])
     /\ calls # <<>> => C15_DirOf(argv[1]) \in dirs
     /\ Returned => C15_DirOf(argv[1]) \in dirs
     /\ returned = "rejected" => env = <<"raise">> /\ calls = <<>>
     /\ (env # <<>> /\ env[1] = "existed") => returned # "rejected"

\* A run for an index number other than the default one that found its case
\* directory already there, went on and returned a result.
C15_Witness ==
  /\ Returned
  /\ argv[1] = <<"1", "/", "2", "4">>
  /\ env[1] = "existed"
  /\ result.caseDir = <<"/tmp/trex-pdfs", <<"1", "-", "2", "4">>>>
  /\ result.caseDir \in dirs
  /\ Len(GotoLog) >= 1

=============================================================================
